---- MODULE Spec2Model ----
(***************************************************************************)
(* Kings Cup room document and the client handlers that write it.          *)
(*                                                                         *)
(* The room document lives in a remote store (variable room).  Every       *)
(* client holds a mirror of it (snap), replaced whole by each delivered    *)
(* snapshot, and every handler computes its write from that mirror.  A     *)
(* write overwrites exactly the fields it names.                           *)
(*                                                                         *)
(* Handlers that re-validate a condition their button already enforces     *)
(* (drawCard: spectator, turn, pause, isDrawing; endTurn: turn, pause;     *)
(* confirmMatePair: two selections; handleCreateRoom: observer) may be     *)
(* invoked here when that condition is false: such a call is rejected by   *)
(* the handler and writes nothing.  Conditions only the rendering          *)
(* enforces are guards of the actions.                                     *)
(*                                                                         *)
(* A modal dialog covers the page, so opening it and confirming it is one  *)
(* action on the mirror of the client; a later confirmation is the same    *)
(* as a late snapshot delivery.                                            *)
(***************************************************************************)
EXTENDS Integers, Sequences, FiniteSets, TLC

(* ------------------------------ bounds ------------------------------- *)

NumClients == 3
NumSuits == 1
NumRanks == 2
MaxOps == 5
GameOps == 3
NumVisitors == 2
MaxPenalty == 2
MaxStale == 1
NumCodes == 2

(* ------------------------------ values ------------------------------- *)

Null == "null"

AllNames == <<"A", "B", "C", "D", "E">>
Clients == 1..NumClients
NameOf(c) == AllNames[c]
Names == {NameOf(c) : c \in Clients}

Roles == {"player", "referee", "observer"}

AllSuits == <<"Hearts", "Diamonds", "Clubs", "Spades">>
suits == SubSeq(AllSuits, 1, IF NumSuits < 4 THEN NumSuits ELSE 4)

\* The ranks the bounded model keeps, most interesting first.
RankPriority ==
  <<"King", "6", "7", "10", "2", "Ace", "3", "4", "5", "8", "9", "Jack", "Queen">>
ModelRanks == {RankPriority[i] : i \in 1..(IF NumRanks < 13 THEN NumRanks ELSE 13)}

\* Object.keys order: integer-like keys ascending, then the others as written.
roomRankKeys ==
  <<"2", "3", "4", "5", "6", "7", "8", "9", "10", "Ace", "Jack", "Queen", "King">>
lobbyRankKeys == <<"2", "Ace", "King">>

\* action of cardMapping[rank] on the room page.
cardMapping(rank) ==
  CASE rank = "Ace" -> "Waterfall"
    [] rank = "2" -> "Take a Drink"
    [] rank = "3" -> "Give 3"
    [] rank = "4" -> "Heaven"
    [] rank = "5" -> "Categories"
    [] rank = "6" -> "Mate"
    [] rank = "7" -> "Thumb"
    [] rank = "8" -> "Guys Drink"
    [] rank = "9" -> "Bust a Rhyme"
    [] rank = "10" -> "Question Master"
    [] rank = "Jack" -> "Take a Drink"
    [] rank = "Queen" -> "Take a Drink"
    [] OTHER -> "New Rule"

\* cardMapping of the lobby page, which lists three ranks only.
lobbyCardMapping(rank) ==
  CASE rank = "Ace" -> "Waterfall"
    [] rank = "2" -> "Waterfall"
    [] OTHER -> "New Rule"

\* A card of the deck.  The description text of a card is never read or
\* changed by a handler and is left out; action is the label of cardMapping.
CardOf(rank, suit, action) ==
  [card |-> rank, suit |-> suit, action |-> action, drawnBy |-> Null]

\* The null card (currentCard: null).
NoCard ==
  [card |-> Null, suit |-> Null, action |-> Null, drawnBy |-> Null]

RECURSIVE Cross(_, _, _)
\* for (suit of suits) for (rank of ranks): the <<rank, suit>> pairs in order.
Cross(ss, rs, i) ==
  IF i > Len(ss) * Len(rs) THEN <<>>
  ELSE <<<<rs[((i - 1) % Len(rs)) + 1], ss[((i - 1) \div Len(rs)) + 1]>>>>
       \o Cross(ss, rs, i + 1)

InModel(rank) == rank \in ModelRanks

generateDeck ==
  LET ranks == SelectSeq(roomRankKeys, InModel)
      pairs == IF Len(ranks) = 0 THEN <<>> ELSE Cross(suits, ranks, 1)
  IN  [i \in 1..Len(pairs) |-> CardOf(pairs[i][1], pairs[i][2], cardMapping(pairs[i][1]))]

lobbyGenerateDeck ==
  LET ranks == SelectSeq(lobbyRankKeys, InModel)
      pairs == IF Len(ranks) = 0 THEN <<>> ELSE Cross(suits, ranks, 1)
  IN  [i \in 1..Len(pairs) |-> CardOf(pairs[i][1], pairs[i][2], lobbyCardMapping(pairs[i][1]))]

Range(s) == {s[i] : i \in 1..Len(s)}

\* array.sort(() => Math.random() - 0.5): some permutation of the array.
shuffle(array) ==
  {p \in [1..Len(array) -> Range(array)] :
     \A i, j \in 1..Len(array) : i # j => p[i] # p[j]}

(* --------------------------- room document --------------------------- *)

NoMates == [n \in Names |-> Null]
NoPenalties == [n \in Names |-> 0]
NoAnnouncement == <<>>

\* The value of a mirror that has received no snapshot (roomData === null),
\* and of the store before the room is created.
NoRoom ==
  [exists |-> FALSE, players |-> <<>>, referee |-> Null, currentTurn |-> 0,
   deck |-> <<>>, currentCard |-> NoCard, thumbMaster |-> Null,
   questionMaster |-> Null, currentRule |-> "", mates |-> NoMates,
   penalties |-> NoPenalties, isPaused |-> FALSE, pauseReason |-> "",
   penaltyAnnouncement |-> NoAnnouncement]

VARIABLES
  room,              \* the room document in the store
  loc,               \* per client: "lobby" or "room" (the page it shows), "away" (app not open)
  session,           \* per client: the playerRole in localStorage, Null if none
  snap,              \* per client: roomData, its mirror of the document
  isDrawing,         \* per client: the isDrawing flag
  pc,                \* per client: position of its pending async handler
  drawDeck,          \* per client: roomData.deck captured by the pending drawCard
  selectingMate,     \* per client
  mateSelectionMode, \* per client: "single" or "pair"
  selectedMates,     \* per client: sequence of at most two names
  ruleModal,         \* per client: the New Rule dialog is open
  clearTimer,        \* per client: the 5-second timer of the announcement effect
  budget,            \* number of user operations the run may still carry out
  stale,             \* number of times a client fell behind the store (bounded by MaxStale)
  last               \* the last step taken: handler, client, argument, outcome

localVars ==
  <<isDrawing, pc, drawDeck, selectingMate, mateSelectionMode, selectedMates, ruleModal>>
vars ==
  <<room, loc, session, snap, isDrawing, pc, drawDeck, selectingMate,
    mateSelectionMode, selectedMates, ruleModal, clearTimer, budget, stale, last>>

Step(op, c, arg, wrote, alert, idx, ct) ==
  [op |-> op, c |-> c, arg |-> arg, wrote |-> wrote, alert |-> alert,
   idx |-> idx, ct |-> ct, fresh |-> (snap[c] = room)]

\* A handler call that is carried out counts against the budget of the run;
\* one the handler refuses, or one that changes local state only, does not.
Used(step) == last' = step /\ budget' = budget - 1
Free(step) == last' = step /\ budget' = budget

Init ==
  /\ room = NoRoom
  /\ loc = [c \in Clients |-> IF c <= NumVisitors THEN "lobby" ELSE "away"]
  /\ session = [c \in Clients |-> Null]
  /\ snap = [c \in Clients |-> NoRoom]
  /\ isDrawing = [c \in Clients |-> FALSE]
  /\ pc = [c \in Clients |-> "idle"]
  /\ drawDeck = [c \in Clients |-> <<>>]
  /\ selectingMate = [c \in Clients |-> FALSE]
  /\ mateSelectionMode = [c \in Clients |-> "single"]
  /\ selectedMates = [c \in Clients |-> <<>>]
  /\ ruleModal = [c \in Clients |-> FALSE]
  /\ clearTimer = [c \in Clients |-> "none"]
  /\ budget = MaxOps
  /\ stale = 0
  /\ last = [op |-> "Init", c |-> 0, arg |-> Null, wrote |-> FALSE, alert |-> "",
             idx |-> -1, ct |-> -1, fresh |-> FALSE]

(* --------------------------- pure helpers ---------------------------- *)

\* players[currentTurn], undefined (Null) when the index is out of range.
PlayerAt(rd) ==
  IF rd.currentTurn >= 0 /\ rd.currentTurn < Len(rd.players)
  THEN rd.players[rd.currentTurn + 1] ELSE Null

isMyTurn(c) == NameOf(c) = PlayerAt(snap[c])
gameIsPaused(c) == snap[c].isPaused
isSpectator(c) == session[c] = "observer"

\* Array.prototype.indexOf, 0-based, -1 when absent.
indexOf(arr, x) ==
  IF x \in Range(arr) THEN (CHOOSE i \in 1..Len(arr) :
                              arr[i] = x /\ \A j \in 1..(i - 1) : arr[j] # x) - 1
  ELSE -1

\* players.filter((p) => p !== name)
filterOut(arr, x) == SelectSeq(arr, LAMBDA p : p # x)

\* Firestore arrayUnion: appends the element unless it is already present.
arrayUnion(arr, x) == IF x \in Range(arr) THEN arr ELSE Append(arr, x)

\* A freshly mounted room page.
Mounted(c) ==
  /\ isDrawing' = [isDrawing EXCEPT ![c] = FALSE]
  /\ selectingMate' = [selectingMate EXCEPT ![c] = FALSE]
  /\ mateSelectionMode' = [mateSelectionMode EXCEPT ![c] = "single"]
  /\ selectedMates' = [selectedMates EXCEPT ![c] = <<>>]
  /\ ruleModal' = [ruleModal EXCEPT ![c] = FALSE]

InLobby(c) == loc[c] = "lobby" /\ pc[c] = "idle" /\ budget > 0
\* The room page is rendered with data and no dialog covers it.
OnPage(c) == loc[c] = "room" /\ snap[c].exists /\ ~ruleModal[c] /\ budget > 0

\* What the store does with the subscriptions when a handler has run: every
\* subscribed client receives the new document at once, except the clients in
\* lagging, whose mirror stays as it is until a later Deliver.  A client counts
\* against MaxStale when it falls behind.
Fanout(lagging) ==
  LET base(d) == IF loc[d] = "room" THEN snap[d] ELSE NoRoom
      behind == {d \in lagging : loc[d] # "room" \/ snap[d] = room}
  IN  /\ \A d \in lagging : loc'[d] = "room" /\ base(d) # room'
      /\ stale' = stale + Cardinality(behind)
      /\ stale' <= MaxStale
      /\ snap' = [d \in Clients |->
                    IF loc'[d] # "room" THEN NoRoom
                    ELSE IF d \in lagging \/ ~room'.exists THEN base(d)
                    ELSE room']

\* A handler that wrote nothing and moved no client leaves the mirrors alone.
Quiet == room' = room /\ loc' = loc

\* roomData?.penaltyAnnouncement as the page of client c has it in mirrors s,
\* blank when the page is not mounted.
ShownAnnouncement(l, s, c) ==
  IF l[c] = "room" THEN s[c].penaltyAnnouncement ELSE NoAnnouncement

\* AnnouncementEffect that starts no timer.
AnnouncementEffectNoTimer(firing) == clearTimer' = [d \in Clients |-> "none"]

\* The effect that clears the announcement: it runs when the page mounts and
\* when roomData.penaltyAnnouncement changes; its cleanup (clearTimeout) runs
\* before it and on unmount; it starts a timer when the text is not blank.
\* firing is the client whose timer callback is running, 0 if none.
AnnouncementEffect(firing) ==
  clearTimer' =
    [d \in Clients |->
       LET before == ShownAnnouncement(loc, snap, d)
           after == ShownAnnouncement(loc', snap', d)
       IN  IF loc'[d] # "room" THEN "none"
           ELSE IF loc[d] # "room" \/ after # before
           THEN (IF after # NoAnnouncement THEN "armed" ELSE "none")
           ELSE IF d = firing THEN "fired"
           ELSE clearTimer[d]]

\* The end of a step of client firing's timer callback (0: of a handler).
PropagateAs(firing) ==
  /\ IF Quiet THEN UNCHANGED <<snap, stale>>
     ELSE \E lagging \in SUBSET Clients : Fanout(lagging)
  /\ AnnouncementEffect(firing)

\* The end of every handler step.
Propagate == PropagateAs(0)

(* ------------------------------- lobby ------------------------------- *)

\* The document actuallyCreateRoom stores with setDoc.
NewRoomDoc(name, role, deck) ==
  [exists |-> TRUE, players |-> <<name>>,
   referee |-> IF role = "referee" THEN name ELSE Null,
   currentTurn |-> 0, deck |-> deck, currentCard |-> NoCard,
   thumbMaster |-> Null, questionMaster |-> Null, currentRule |-> "",
   mates |-> NoMates, penalties |-> NoPenalties, isPaused |-> FALSE,
   pauseReason |-> "", penaltyAnnouncement |-> NoAnnouncement]

\* handleCreateRoom, its confirmation dialog and actuallyCreateRoom.  Only one
\* room code is modelled: a room is created while the code is unused.
CreateRoom(c, role, deck) ==
  /\ InLobby(c)
  /\ ~room.exists
  /\ IF role = "observer"
     THEN /\ Free(Step("CreateRoom", c, role, FALSE, "Observers cannot create a room.", -1, -1))
          /\ UNCHANGED <<room, loc, session, localVars>>
     ELSE /\ room' = NewRoomDoc(NameOf(c), role, deck)
          /\ session' = [session EXCEPT ![c] = role]
          /\ loc' = [loc EXCEPT ![c] = "room"]
          /\ Mounted(c)
          /\ Used(Step("CreateRoom", c, role, TRUE, "", -1, -1))
          /\ UNCHANGED <<pc, drawDeck>>
  /\ Propagate

\* RefereeTaken without the test: no room is taken.
RefereeTakenNever(data, name) == FALSE

\* The referee branch's test on the document read with getDoc.
RefereeTaken(data, name) == data.referee # Null /\ data.referee # name

\* The fields a referee join overwrites.
RefereeJoinUpdate(doc, name) ==
  [doc EXCEPT !.referee = name, !.players = arrayUnion(doc.players, name)]

\* The fields a player join overwrites.
PlayerJoinUpdate(doc, name) ==
  [doc EXCEPT !.players = arrayUnion(doc.players, name)]

\* Entering the room page after a join: localStorage is set, the page mounts.
EnterRoom(c, role) ==
  /\ session' = [session EXCEPT ![c] = role]
  /\ loc' = [loc EXCEPT ![c] = "room"]
  /\ Mounted(c)

\* handleJoinRoom / handleJoinActiveLobby up to their first await.
JoinRoom(c, role) ==
  /\ InLobby(c)
  /\ CASE role = "observer" ->
            \* Observers do not update the players list.
            /\ EnterRoom(c, role)
            /\ Used(Step("JoinRoom", c, role, FALSE, "", -1, -1))
            /\ UNCHANGED <<room, pc, drawDeck>>
       [] role = "referee" ->
            \* getDoc, then the test on what it returned.
            IF ~room.exists
            THEN /\ Free(Step("JoinRoom", c, role, FALSE, "Room not found.", -1, -1))
                 /\ UNCHANGED <<room, loc, session, localVars>>
            ELSE IF RefereeTaken(room, NameOf(c))
            THEN /\ Free(Step("JoinRoom", c, role, FALSE,
                                 "This room already has a referee.", -1, -1))
                 /\ UNCHANGED <<room, loc, session, localVars>>
            ELSE /\ pc' = [pc EXCEPT ![c] = "joinReferee"]
                 /\ Used(Step("JoinRoom", c, role, FALSE, "", -1, -1))
                 /\ UNCHANGED <<room, loc, session, isDrawing, drawDeck,
                                selectingMate, mateSelectionMode, selectedMates, ruleModal>>
       [] OTHER ->
            \* Normal player: updateDoc throws when the room does not exist.
            IF ~room.exists
            THEN /\ Free(Step("JoinRoom", c, role, FALSE,
                                 "Failed to join room. Please check the room ID.", -1, -1))
                 /\ UNCHANGED <<room, loc, session, localVars>>
            ELSE /\ room' = PlayerJoinUpdate(room, NameOf(c))
                 /\ EnterRoom(c, role)
                 /\ Used(Step("JoinRoom", c, role, TRUE, "", -1, -1))
                 /\ UNCHANGED <<pc, drawDeck>>
  /\ Propagate

\* The referee branch after getDoc resolved: updateDoc, localStorage, navigate.
JoinWrite(c) ==
  /\ pc[c] = "joinReferee"
  /\ room' = RefereeJoinUpdate(room, NameOf(c))
  /\ EnterRoom(c, "referee")
  /\ pc' = [pc EXCEPT ![c] = "idle"]
  /\ last' = Step("JoinWrite", c, "referee", TRUE, "", -1, -1)
  /\ UNCHANGED <<drawDeck, budget>>
  /\ Propagate

(* ---------------------------- subscription --------------------------- *)

\* Leaving the room page: the component unmounts and its state is dropped.
Unmounted(c) ==
  /\ loc' = [loc EXCEPT ![c] = "lobby"]
  /\ Mounted(c)

\* onSnapshot callback: the mirror is replaced by the current document; a
\* missing document sends the client back to the lobby.
Deliver(c) ==
  /\ loc[c] = "room"
  /\ snap[c] # room \/ ~room.exists
  /\ IF room.exists
     THEN /\ snap' = [snap EXCEPT ![c] = room]
          /\ last' = Step("Deliver", c, Null, FALSE, "", -1, -1)
          /\ UNCHANGED <<room, loc, session, localVars, budget, stale>>
     ELSE /\ Unmounted(c)
          /\ snap' = [snap EXCEPT ![c] = NoRoom]
          /\ last' = Step("Deliver", c, Null, FALSE, "Room not found.", -1, -1)
          /\ UNCHANGED <<room, session, pc, drawDeck, budget, stale>>
  /\ AnnouncementEffect(0)

\* updateDoc(roomRef, { penaltyAnnouncement: "" })
ClearUpdate(doc) == [doc EXCEPT !.penaltyAnnouncement = NoAnnouncement]

\* The setTimeout callback of the announcement effect, 5 seconds after the
\* effect ran, unless its cleanup has cancelled it.
ClearAnnouncement(c) ==
  /\ loc[c] = "room"
  /\ clearTimer[c] = "armed"
  /\ room.exists
  /\ room' = ClearUpdate(room)
  /\ last' = Step("ClearAnnouncement", c, Null, TRUE, "", -1, -1)
  /\ UNCHANGED <<loc, session, localVars, budget>>
  /\ PropagateAs(c)

(* ----------------------------- drawCard ------------------------------ *)

\* { ...roomData.deck[0], drawnBy: localName }
nextCard(deck, name) == [deck[1] EXCEPT !.drawnBy = name]

\* roomData.deck.slice(1)
slice1(deck) == SubSeq(deck, 2, Len(deck))

\* The card actions whose branch issues a write of its own before the final one.
HasFirstWrite(action) == action \in {"New Rule", "Mate", "Thumb", "Question Master"}

\* The write issued inside the branch taken for the card's action.
DrawUpdate1(doc, deck, name) ==
  LET card == nextCard(deck, name)
  IN  CASE card.action = "New Rule" ->
             [doc EXCEPT !.deck = slice1(deck), !.currentCard = card,
                         !.thumbMaster = name]
        [] card.action = "Mate" ->
             [doc EXCEPT !.deck = slice1(deck), !.currentCard = card]
        [] card.action = "Thumb" -> [doc EXCEPT !.thumbMaster = name]
        [] card.action = "Question Master" -> [doc EXCEPT !.questionMaster = name]
        [] OTHER -> doc

\* DrawUpdate2 with the deck left as it is.
DrawUpdate2KeepDeck(doc, deck, name) ==
  [doc EXCEPT !.currentCard = nextCard(deck, name)]

\* The final write of drawCard, issued for every card.
DrawUpdate2(doc, deck, name) ==
  [doc EXCEPT !.deck = slice1(deck), !.currentCard = nextCard(deck, name)]

\* DrawVerdict without the turn check.
DrawVerdictNoTurn(rd, drawing, spectator, myTurn) ==
  IF Len(rd.deck) = 0 THEN ""
  ELSE IF drawing THEN ""
  ELSE IF spectator THEN "Spectators cannot draw cards."
  ELSE IF rd.isPaused THEN "The game is currently paused."
  ELSE "ok"

\* The alert drawCard raises on the mirror rd, "" when it returns silently,
\* "ok" when every precondition passes.
DrawVerdict(rd, drawing, spectator, myTurn) ==
  IF Len(rd.deck) = 0 THEN ""
  ELSE IF drawing THEN ""
  ELSE IF spectator THEN "Spectators cannot draw cards."
  ELSE IF ~myTurn THEN "It's not your turn!"
  ELSE IF rd.isPaused THEN "The game is currently paused."
  ELSE "ok"

\* drawCard up to its first await.  The Draw Card button is rendered while the
\* mirror shows no current card.
DrawCard(c) ==
  /\ OnPage(c)
  /\ snap[c].currentCard = NoCard
  /\ LET verdict == DrawVerdict(snap[c], isDrawing[c], isSpectator(c), isMyTurn(c))
     IN  IF verdict = "ok"
         THEN /\ isDrawing' = [isDrawing EXCEPT ![c] = TRUE]
              /\ drawDeck' = [drawDeck EXCEPT ![c] = snap[c].deck]
              /\ pc' = [pc EXCEPT ![c] =
                          IF HasFirstWrite(snap[c].deck[1].action) THEN "draw1" ELSE "draw2"]
              /\ Used(Step("DrawCard", c, Null, FALSE, "", -1, snap[c].currentTurn))
              /\ UNCHANGED <<room, loc, session, selectingMate,
                             mateSelectionMode, selectedMates, ruleModal>>
         ELSE /\ Free(Step("DrawCard", c, Null, FALSE, verdict, -1, snap[c].currentTurn))
              /\ UNCHANGED <<room, loc, session, localVars>>
  /\ Propagate

\* After the animation delay: the branch for the card's action and its write.
DrawWrite1(c) ==
  /\ pc[c] = "draw1"
  /\ room' = DrawUpdate1(room, drawDeck[c], NameOf(c))
  /\ pc' = [pc EXCEPT ![c] = "draw2"]
  /\ IF drawDeck[c][1].action = "Mate" /\ loc[c] = "room"
     THEN /\ mateSelectionMode' = [mateSelectionMode EXCEPT ![c] =
                                     IF session[c] = "referee" THEN "pair" ELSE "single"]
          /\ selectedMates' = [selectedMates EXCEPT ![c] = <<>>]
          /\ selectingMate' = [selectingMate EXCEPT ![c] = TRUE]
     ELSE UNCHANGED <<mateSelectionMode, selectedMates, selectingMate>>
  /\ last' = Step("DrawWrite1", c, drawDeck[c][1].action, TRUE, "", -1, -1)
  /\ UNCHANGED <<loc, session, isDrawing, drawDeck, ruleModal, budget>>
  /\ Propagate

\* The final write; the New Rule dialog opens just before it is issued.
DrawWrite2(c) ==
  /\ pc[c] = "draw2"
  /\ room' = DrawUpdate2(room, drawDeck[c], NameOf(c))
  /\ pc' = [pc EXCEPT ![c] = "idle"]
  /\ drawDeck' = [drawDeck EXCEPT ![c] = <<>>]
  /\ IF loc[c] = "room"
     THEN /\ isDrawing' = [isDrawing EXCEPT ![c] = FALSE]
          /\ ruleModal' = [ruleModal EXCEPT ![c] =
                             ruleModal[c] \/ drawDeck[c][1].action = "New Rule"]
     ELSE UNCHANGED <<isDrawing, ruleModal>>
  /\ last' = Step("DrawWrite2", c, drawDeck[c][1].action, TRUE, "", -1, -1)
  /\ UNCHANGED <<loc, session, selectingMate, mateSelectionMode,
                 selectedMates, budget>>
  /\ Propagate

\* An updateDoc of drawCard rejects: the handler ends there, isDrawing stays set.
DrawFail(c) ==
  /\ pc[c] \in {"draw1", "draw2"}
  /\ pc' = [pc EXCEPT ![c] = "idle"]
  /\ drawDeck' = [drawDeck EXCEPT ![c] = <<>>]
  /\ IF pc[c] = "draw1" /\ drawDeck[c][1].action = "Mate" /\ loc[c] = "room"
     THEN /\ mateSelectionMode' = [mateSelectionMode EXCEPT ![c] =
                                     IF session[c] = "referee" THEN "pair" ELSE "single"]
          /\ selectedMates' = [selectedMates EXCEPT ![c] = <<>>]
          /\ selectingMate' = [selectingMate EXCEPT ![c] = TRUE]
     ELSE UNCHANGED <<mateSelectionMode, selectedMates, selectingMate>>
  /\ ruleModal' = [ruleModal EXCEPT ![c] =
                     ruleModal[c] \/ (pc[c] = "draw2" /\ loc[c] = "room"
                                       /\ drawDeck[c][1].action = "New Rule")]
  /\ last' = Step("DrawFail", c, Null, FALSE, "", -1, -1)
  /\ UNCHANGED <<room, loc, session, isDrawing, budget>>
  /\ Propagate

\* The New Rule dialog: Set Rule with the text typed, or Cancel (text "").
RuleTexts == {"", "rule"}

\* RuleUpdate that stores the text even when it is empty.
RuleUpdateAlways(doc, ruleText) == [doc EXCEPT !.currentRule = ruleText]

\* onConfirm of the New Rule dialog: if (ruleText) updateDoc({ currentRule }).
RuleUpdate(doc, ruleText) ==
  IF ruleText # "" THEN [doc EXCEPT !.currentRule = ruleText] ELSE doc

RuleConfirm(c, ruleText) ==
  /\ loc[c] = "room"
  /\ ruleModal[c]
  /\ room' = RuleUpdate(room, ruleText)
  /\ ruleModal' = [ruleModal EXCEPT ![c] = FALSE]
  /\ last' = Step("RuleConfirm", c, ruleText, ruleText # "", "", -1, -1)
  /\ UNCHANGED <<loc, session, isDrawing, pc, drawDeck, selectingMate,
                 mateSelectionMode, selectedMates, budget>>
  /\ Propagate

(* ------------------------ endTurn, leave, remove --------------------- *)

\* nextTurn that stays on the same player.
nextTurnSame(rd) == rd.currentTurn

\* (roomData.currentTurn + 1) % roomData.players.length
nextTurn(rd) == (rd.currentTurn + 1) % Len(rd.players)

\* EndTurnUpdate with the penalty announcement left as it is.
EndTurnUpdateKeepAnnouncement(doc, rd) ==
  [doc EXCEPT !.currentCard = NoCard, !.currentTurn = nextTurn(rd)]

\* The update endTurn sends.
EndTurnUpdate(doc, rd) ==
  [doc EXCEPT !.currentCard = NoCard, !.currentTurn = nextTurn(rd),
              !.penaltyAnnouncement = NoAnnouncement]

\* The turn test of endTurn, and a version of it that lets every client pass.
EndTurnAllowedAlways(c) == TRUE

EndTurnAllowed(c) == isMyTurn(c)

\* endTurn.  The End Turn button is rendered to a non-observer while the mirror
\* shows a current card.
EndTurn(c) ==
  /\ OnPage(c)
  /\ ~isSpectator(c)
  /\ snap[c].currentCard # NoCard
  /\ IF ~EndTurnAllowed(c)
     THEN /\ Free(Step("EndTurn", c, Null, FALSE, "", -1, snap[c].currentTurn))
          /\ UNCHANGED <<room, loc, session, localVars>>
     ELSE IF gameIsPaused(c)
     THEN /\ Free(Step("EndTurn", c, Null, FALSE, "The game is currently paused.",
                          -1, snap[c].currentTurn))
          /\ UNCHANGED <<room, loc, session, localVars>>
     ELSE /\ room' = EndTurnUpdate(room, snap[c])
          /\ Used(Step("EndTurn", c, Null, TRUE, "", -1, snap[c].currentTurn))
          /\ UNCHANGED <<loc, session, localVars>>
  /\ Propagate

\* newCurrentTurn without the decrement for a name removed before the pointer.
newCurrentTurnNoDecrement(rd, name) ==
  LET newPlayers == filterOut(rd.players, name)
      removedIndex == indexOf(rd.players, name)
  IN  IF removedIndex = rd.currentTurn
      THEN IF Len(newPlayers) > 0 THEN rd.currentTurn % Len(newPlayers) ELSE 0
      ELSE rd.currentTurn

\* The turn pointer performLeaveGame and removePlayer write when name goes.
newCurrentTurn(rd, name) ==
  LET newPlayers == filterOut(rd.players, name)
      removedIndex == indexOf(rd.players, name)
  IN  IF removedIndex # -1
      THEN IF removedIndex < rd.currentTurn THEN rd.currentTurn - 1
           ELSE IF removedIndex = rd.currentTurn
                THEN IF Len(newPlayers) > 0 THEN rd.currentTurn % Len(newPlayers) ELSE 0
                ELSE rd.currentTurn
      ELSE rd.currentTurn

\* updateData of performLeaveGame.
LeaveUpdate(doc, rd, name) ==
  LET upd == [doc EXCEPT !.players = filterOut(rd.players, name),
                         !.currentTurn = newCurrentTurn(rd, name)]
  IN  IF name = rd.referee THEN [upd EXCEPT !.referee = Null] ELSE upd

\* The update removePlayer sends.
RemoveUpdate(doc, rd, name) ==
  [doc EXCEPT !.players = filterOut(rd.players, name),
              !.currentTurn = newCurrentTurn(rd, name)]

\* handleLeaveGame, its confirmation and performLeaveGame.  The Leave Game
\* button is rendered to every non-observer.
LeaveGame(c) ==
  /\ OnPage(c)
  /\ ~isSpectator(c)
  /\ room' = LeaveUpdate(room, snap[c], NameOf(c))
  /\ session' = [session EXCEPT ![c] = Null]
  /\ Unmounted(c)
  /\ Used(Step("LeaveGame", c, NameOf(c), TRUE, "",
                  indexOf(snap[c].players, NameOf(c)), snap[c].currentTurn))
  /\ UNCHANGED <<pc, drawDeck>>
  /\ Propagate

\* handleRemovePlayer, its dialog and removePlayer (referee controls).
RemovePlayer(c, playerName) ==
  /\ OnPage(c)
  /\ session[c] = "referee"
  /\ room' = RemoveUpdate(room, snap[c], playerName)
  /\ Used(Step("RemovePlayer", c, playerName, TRUE, "",
                  indexOf(snap[c].players, playerName), snap[c].currentTurn))
  /\ UNCHANGED <<loc, session, localVars>>
  /\ Propagate

(* --------------------------- mate selection -------------------------- *)

\* The mate panel is rendered: selectingMate && isMyTurn.
MatePanel(c) == OnPage(c) /\ selectingMate[c] /\ isMyTurn(c)

\* The buttons of the panel: every player of the mirror but the client itself.
MateChoices(c) == Range(snap[c].players) \ {NameOf(c)}

\* handleMatePairSelection: toggles a name, keeping at most two.
toggleSelection(sel, playerName) ==
  IF playerName \in Range(sel) THEN filterOut(sel, playerName)
  ELSE IF Len(sel) < 2 THEN Append(sel, playerName) ELSE sel

handleMatePairSelection(c, playerName) ==
  /\ MatePanel(c)
  /\ mateSelectionMode[c] = "pair"
  /\ playerName \in MateChoices(c)
  /\ selectedMates' = [selectedMates EXCEPT ![c] = toggleSelection(@, playerName)]
  /\ selectedMates'[c] # selectedMates[c]
  /\ Free(Step("handleMatePairSelection", c, playerName, FALSE, "", -1, -1))
  /\ UNCHANGED <<room, loc, session, isDrawing, pc, drawDeck, selectingMate,
                 mateSelectionMode, ruleModal>>
  /\ Propagate

\* ChooseMateUpdate with the reverse link recorded as well.
ChooseMateUpdateBoth(doc, rd, name, mateName) ==
  [doc EXCEPT !.mates = [rd.mates EXCEPT ![name] = mateName, ![mateName] = name],
              !.currentCard = NoCard, !.currentTurn = nextTurn(rd)]

\* The update chooseMate sends.
ChooseMateUpdate(doc, rd, name, mateName) ==
  [doc EXCEPT !.mates = [rd.mates EXCEPT ![name] = mateName],
              !.currentCard = NoCard, !.currentTurn = nextTurn(rd)]

\* chooseMate (single mode).
chooseMate(c, mateName) ==
  /\ MatePanel(c)
  /\ mateSelectionMode[c] = "single"
  /\ mateName \in MateChoices(c)
  /\ room' = ChooseMateUpdate(room, snap[c], NameOf(c), mateName)
  /\ selectingMate' = [selectingMate EXCEPT ![c] = FALSE]
  /\ Used(Step("chooseMate", c, mateName, TRUE, "", -1, snap[c].currentTurn))
  /\ UNCHANGED <<loc, session, isDrawing, pc, drawDeck, mateSelectionMode,
                 selectedMates, ruleModal>>
  /\ Propagate

\* MatePairUpdate with the link recorded for the first selection only.
MatePairUpdateOneWay(doc, rd, sel) ==
  [doc EXCEPT !.mates = [rd.mates EXCEPT ![sel[1]] = sel[2]],
              !.currentCard = NoCard, !.currentTurn = nextTurn(rd)]

\* The update confirmMatePair sends.
MatePairUpdate(doc, rd, sel) ==
  [doc EXCEPT !.mates = [rd.mates EXCEPT ![sel[1]] = sel[2], ![sel[2]] = sel[1]],
              !.currentCard = NoCard, !.currentTurn = nextTurn(rd)]

\* The test confirmMatePair makes before it writes.
PairComplete(sel) == Len(sel) = 2

\* confirmMatePair (pair mode).
confirmMatePair(c) ==
  /\ MatePanel(c)
  /\ mateSelectionMode[c] = "pair"
  /\ IF ~PairComplete(selectedMates[c])
     THEN /\ Free(Step("confirmMatePair", c, Null, FALSE,
                          "Please select exactly two players to link as mates.",
                          -1, snap[c].currentTurn))
          /\ UNCHANGED <<room, loc, session, localVars>>
     ELSE /\ room' = MatePairUpdate(room, snap[c], selectedMates[c])
          /\ selectingMate' = [selectingMate EXCEPT ![c] = FALSE]
          /\ Used(Step("confirmMatePair", c, Null, TRUE, "", -1, snap[c].currentTurn))
          /\ UNCHANGED <<loc, session, isDrawing, pc, drawDeck,
                         mateSelectionMode, selectedMates, ruleModal>>
  /\ Propagate

(* ------------------------- round and referee ------------------------- *)

\* Reset Round and Quit Room are rendered in the referee controls and, for
\* every client, under the game controls once the deck is empty.
RoundControls(c) == OnPage(c) /\ (session[c] = "referee" \/ Len(snap[c].deck) = 0)

\* ResetUpdate that leaves currentCard as it is.
ResetUpdateKeepCard(doc, deck) ==
  [doc EXCEPT !.deck = deck, !.thumbMaster = Null,
              !.questionMaster = Null, !.currentRule = "", !.mates = NoMates,
              !.penalties = NoPenalties, !.isPaused = FALSE, !.pauseReason = "",
              !.penaltyAnnouncement = NoAnnouncement, !.currentTurn = 0]

\* ResetUpdate that leaves the mates map as it is.
ResetUpdateKeepMates(doc, deck) ==
  [doc EXCEPT !.deck = deck, !.currentCard = NoCard, !.thumbMaster = Null,
              !.questionMaster = Null, !.currentRule = "",
              !.penalties = NoPenalties, !.isPaused = FALSE, !.pauseReason = "",
              !.penaltyAnnouncement = NoAnnouncement, !.currentTurn = 0]

\* The fields written by the Reset confirmation, deck a shuffled fresh deck.
ResetUpdate(doc, deck) ==
  [doc EXCEPT !.deck = deck, !.currentCard = NoCard, !.thumbMaster = Null,
              !.questionMaster = Null, !.currentRule = "", !.mates = NoMates,
              !.penalties = NoPenalties, !.isPaused = FALSE, !.pauseReason = "",
              !.penaltyAnnouncement = NoAnnouncement, !.currentTurn = 0]

\* resetRound and the Reset confirmation.
resetRound(c, deck) ==
  /\ RoundControls(c)
  /\ room' = ResetUpdate(room, deck)
  /\ Used(Step("resetRound", c, Null, TRUE, "", -1, -1))
  /\ UNCHANGED <<loc, session, localVars>>
  /\ Propagate

QuitUpdate(doc) == [doc EXCEPT !.players = <<>>, !.deck = <<>>]

\* quitRoom and the Quit confirmation; the client returns to the lobby.
quitRoom(c) ==
  /\ RoundControls(c)
  /\ room' = QuitUpdate(room)
  /\ Unmounted(c)
  /\ Used(Step("quitRoom", c, Null, TRUE, "", -1, -1))
  /\ UNCHANGED <<session, pc, drawDeck>>
  /\ Propagate

\* markRuleViolation: the field path penalties.<name> and the announcement.
ViolationUpdate(doc, rd, playerName) ==
  LET currentPenalties == rd.penalties[playerName]
  IN  [doc EXCEPT !.penalties = [doc.penalties EXCEPT ![playerName] = currentPenalties + 1],
                  !.penaltyAnnouncement = <<playerName, currentPenalties + 1>>]

\* handleMarkViolation, its dialog and markRuleViolation (referee controls).
markRuleViolation(c, playerName) ==
  /\ OnPage(c)
  /\ session[c] = "referee"
  /\ playerName \in Range(snap[c].players)
  /\ snap[c].penalties[playerName] < MaxPenalty
  /\ room' = ViolationUpdate(room, snap[c], playerName)
  /\ Used(Step("markRuleViolation", c, playerName, TRUE, "", -1, -1))
  /\ UNCHANGED <<loc, session, localVars>>
  /\ Propagate

\* The reasons typed into the Pause dialog; a blank one is refused.
PauseReasons == {"", "Toilet Break"}

PauseUpdate(doc, reason) == [doc EXCEPT !.isPaused = TRUE, !.pauseReason = reason]

\* pauseGame and its dialog (rendered to the referee while not paused).
pauseGame(c, reason) ==
  /\ OnPage(c)
  /\ session[c] = "referee"
  /\ ~snap[c].isPaused
  /\ IF reason = ""
     THEN /\ Free(Step("pauseGame", c, reason, FALSE, "", -1, -1))
          /\ UNCHANGED <<room, loc, session, localVars>>
     ELSE /\ room' = PauseUpdate(room, reason)
          /\ Used(Step("pauseGame", c, reason, TRUE, "", -1, -1))
          /\ UNCHANGED <<loc, session, localVars>>
  /\ Propagate

ResumeUpdate(doc) == [doc EXCEPT !.isPaused = FALSE, !.pauseReason = ""]

\* resumeGame (rendered to the referee while paused).
resumeGame(c) ==
  /\ OnPage(c)
  /\ session[c] = "referee"
  /\ snap[c].isPaused
  /\ room' = ResumeUpdate(room)
  /\ Used(Step("resumeGame", c, Null, TRUE, "", -1, -1))
  /\ UNCHANGED <<loc, session, localVars>>
  /\ Propagate

(* --------------------------- specification --------------------------- *)

Next ==
  \/ \E c \in Clients : Deliver(c)
  \/ \E role \in Roles, deck \in shuffle(lobbyGenerateDeck) :
       CreateRoom(1, role, deck)
  \/ \E c \in Clients, role \in Roles : JoinRoom(c, role)
  \/ \E c \in Clients : JoinWrite(c)
  \/ \E c \in Clients : DrawCard(c)
  \/ \E c \in Clients : DrawWrite1(c)
  \/ \E c \in Clients : DrawWrite2(c)
  \/ \E c \in Clients : DrawFail(c)
  \/ \E c \in Clients, ruleText \in RuleTexts : RuleConfirm(c, ruleText)
  \/ \E c \in Clients : EndTurn(c)
  \/ \E c \in Clients : LeaveGame(c)
  \/ \E c \in Clients, playerName \in Names : RemovePlayer(c, playerName)
  \/ \E c \in Clients, playerName \in Names : handleMatePairSelection(c, playerName)
  \/ \E c \in Clients, mateName \in Names : chooseMate(c, mateName)
  \/ \E c \in Clients : confirmMatePair(c)
  \/ \E c \in Clients, deck \in shuffle(generateDeck) : resetRound(c, deck)
  \/ \E c \in Clients : quitRoom(c)
  \/ \E c \in Clients, playerName \in Names : markRuleViolation(c, playerName)
  \/ \E c \in Clients, reason \in PauseReasons : pauseGame(c, reason)
  \/ \E c \in Clients : resumeGame(c)

Spec == Init /\ [][Next]_vars

(* ------------------------ runs of a started game --------------------- *)

RECURSIVE JoinAll(_, _, _)
\* The document after clients c..NumClients joined in order, refClient as
\* referee and the others as players.
JoinAll(doc, c, refClient) ==
  IF c > NumClients THEN doc
  ELSE JoinAll(IF c = refClient THEN RefereeJoinUpdate(doc, NameOf(c))
               ELSE PlayerJoinUpdate(doc, NameOf(c)), c + 1, refClient)

\* A room client 1 created, every other client joined, and whose round was
\* reset to the shuffled deck.
StartedRoom(refClient, lobbyDeck, deck) ==
  ResetUpdate(JoinAll(NewRoomDoc(NameOf(1),
                                 IF refClient = 1 THEN "referee" ELSE "player",
                                 lobbyDeck), 2, refClient), deck)

\* The clients that may hold the referee role when the game starts.
StartReferees == {1, 2}

\* Every client is on the room page of a started room and has its snapshot.
InitGame ==
  /\ \E refClient \in StartReferees, lobbyDeck \in shuffle(lobbyGenerateDeck),
        deck \in shuffle(generateDeck) :
       /\ room = StartedRoom(refClient, lobbyDeck, deck)
       /\ session = [c \in Clients |-> IF c = refClient THEN "referee" ELSE "player"]
  /\ loc = [c \in Clients |-> "room"]
  /\ snap = [c \in Clients |-> room]
  /\ isDrawing = [c \in Clients |-> FALSE]
  /\ pc = [c \in Clients |-> "idle"]
  /\ drawDeck = [c \in Clients |-> <<>>]
  /\ selectingMate = [c \in Clients |-> FALSE]
  /\ mateSelectionMode = [c \in Clients |-> "single"]
  /\ selectedMates = [c \in Clients |-> <<>>]
  /\ ruleModal = [c \in Clients |-> FALSE]
  /\ clearTimer = [c \in Clients |-> "none"]
  /\ budget = GameOps
  /\ stale = 0
  /\ last = [op |-> "Init", c |-> 0, arg |-> Null, wrote |-> FALSE, alert |-> "",
             idx |-> -1, ct |-> -1, fresh |-> FALSE]

\* The room exists from the start, so no room is created in these runs.
NextGame ==
  \/ \E c \in Clients : Deliver(c)
  \/ \E c \in Clients, role \in Roles : JoinRoom(c, role)
  \/ \E c \in Clients : JoinWrite(c)
  \/ \E c \in Clients : DrawCard(c)
  \/ \E c \in Clients : DrawWrite1(c)
  \/ \E c \in Clients : DrawWrite2(c)
  \/ \E c \in Clients : DrawFail(c)
  \/ \E c \in Clients, ruleText \in RuleTexts : RuleConfirm(c, ruleText)
  \/ \E c \in Clients : EndTurn(c)
  \/ \E c \in Clients : LeaveGame(c)
  \/ \E c \in Clients, playerName \in Names : RemovePlayer(c, playerName)
  \/ \E c \in Clients, playerName \in Names : handleMatePairSelection(c, playerName)
  \/ \E c \in Clients, mateName \in Names : chooseMate(c, mateName)
  \/ \E c \in Clients : confirmMatePair(c)
  \/ \E c \in Clients, deck \in shuffle(generateDeck) : resetRound(c, deck)
  \/ \E c \in Clients : quitRoom(c)
  \/ \E c \in Clients, playerName \in Names : markRuleViolation(c, playerName)
  \/ \E c \in Clients, reason \in PauseReasons : pauseGame(c, reason)
  \/ \E c \in Clients : resumeGame(c)

SpecGame == InitGame /\ [][NextGame]_vars

(* ---------------------------- room codes ----------------------------- *)

\* generateRoomCode: four random letters; the codes it can return.  The
\* room of the model is the document stored under the first of them.
generateRoomCode == 1..NumCodes

\* actuallyCreateRoom while the room of the model exists: setDoc stores the
\* new document under the generated code, whatever is stored there, and the
\* creator moves to the page of that code; a room under another code is not
\* followed further.
CreateRoomAgain(c, role, deck, roomCode) ==
  /\ InLobby(c)
  /\ room.exists
  /\ role # "observer"
  /\ IF roomCode = 1
     THEN /\ room' = NewRoomDoc(NameOf(c), role, deck)
          /\ loc' = [loc EXCEPT ![c] = "room"]
     ELSE /\ room' = room
          /\ loc' = [loc EXCEPT ![c] = "away"]
  /\ session' = [session EXCEPT ![c] = role]
  /\ Mounted(c)
  /\ Used(Step("CreateRoomAgain", c, roomCode, roomCode = 1, "", -1, -1))
  /\ UNCHANGED <<pc, drawDeck>>
  /\ Propagate

\* The lobby and the game with rooms created while a room exists.
NextCodes ==
  \/ \E c \in Clients : Deliver(c)
  \/ \E role \in Roles, deck \in shuffle(lobbyGenerateDeck) :
       CreateRoom(1, role, deck)
  \/ \E c \in Clients, role \in Roles, deck \in shuffle(lobbyGenerateDeck),
        roomCode \in generateRoomCode : CreateRoomAgain(c, role, deck, roomCode)
  \/ \E c \in Clients, role \in Roles : JoinRoom(c, role)
  \/ \E c \in Clients : JoinWrite(c)
  \/ \E c \in Clients : DrawCard(c)
  \/ \E c \in Clients : DrawWrite1(c)
  \/ \E c \in Clients : DrawWrite2(c)
  \/ \E c \in Clients : LeaveGame(c)

SpecCodes == Init /\ [][NextCodes]_vars

(* ----------------------- the announcement timer ---------------------- *)

\* The started game with the timer callback of the announcement effect and
\* the handlers that set or clear penaltyAnnouncement or unmount the page.
NextTimer ==
  \/ \E c \in Clients : Deliver(c)
  \/ \E c \in Clients : ClearAnnouncement(c)
  \/ \E c \in Clients, playerName \in Names : markRuleViolation(c, playerName)
  \/ \E c \in Clients : DrawCard(c)
  \/ \E c \in Clients : DrawWrite1(c)
  \/ \E c \in Clients : DrawWrite2(c)
  \/ \E c \in Clients : EndTurn(c)
  \/ \E c \in Clients : LeaveGame(c)
  \/ \E c \in Clients, deck \in shuffle(generateDeck) : resetRound(c, deck)
  \/ \E c \in Clients : quitRoom(c)

\* A started timer fires and a snapshot sent is received.
SpecTimer ==
  /\ InitGame
  /\ [][NextTimer]_vars
  /\ \A c \in Clients : WF_vars(ClearAnnouncement(c)) /\ WF_vars(Deliver(c))

(* ----------------------------- properties ---------------------------- *)

\* 0 <= currentTurn < max(1, players.length)
TurnBound(doc) ==
  /\ 0 <= doc.currentTurn
  /\ doc.currentTurn < (IF Len(doc.players) > 1 THEN Len(doc.players) ELSE 1)

\* The last step was a write of one of the handlers in opNames, computed from
\* a mirror equal to the document it was applied to.
FreshWrite(step, opNames) == step.op \in opNames /\ step.wrote /\ step.fresh

\* C1: when EndTurn, RemovePlayer or LeaveGame is applied by a client whose
\* snapshot equals the room document, and that snapshot satisfies
\* 0 <= currentTurn < max(1, players.length), the resulting document
\* satisfies the bound too.
C1_TurnBoundKept ==
  [][(FreshWrite(last', {"EndTurn", "RemovePlayer", "LeaveGame"}) /\ TurnBound(room))
       => TurnBound(room')]_vars

\* C1 witness: the referee removed the last player of the list while that
\* player was on turn, and the pointer wrapped to the first player.
C1_Witness ==
  /\ FreshWrite(last, {"RemovePlayer"})
  /\ last.idx = last.ct
  /\ last.ct >= 1
  /\ Len(room.players) = last.ct
  /\ room.currentTurn = 0

\* The head of deck d stamped with the name of the drawer.
Stamped(d, name) ==
  [card |-> d[1].card, suit |-> d[1].suit, action |-> d[1].action, drawnBy |-> name]

\* The preconditions of drawCard hold on the mirror of client c.
DrawPasses(c) ==
  /\ Len(snap[c].deck) > 0
  /\ snap[c].currentTurn < Len(snap[c].players)
  /\ snap[c].players[snap[c].currentTurn + 1] = NameOf(c)
  /\ ~snap[c].isPaused
  /\ session[c] # "observer"
  /\ ~isDrawing[c]

\* C2: a DrawCard that passes its preconditions on a snapshot with deck d
\* is carried out on d; it sets currentCard to the head of d stamped with
\* drawnBy = actor and deck to the tail of d in the same order, one card
\* shorter, and none of its writes changes players or currentTurn.
C2_DrawEffect ==
  [][LET c == last'.c
     IN  /\ (last'.op = "DrawCard" /\ DrawPasses(c))
               => /\ pc'[c] \in {"draw1", "draw2"}
                  /\ drawDeck'[c] = snap[c].deck
                  /\ room' = room
         /\ last'.op = "DrawWrite2"
               => /\ room'.currentCard = Stamped(drawDeck[c], NameOf(c))
                  /\ room'.deck = Tail(drawDeck[c])
                  /\ Len(room'.deck) = Len(drawDeck[c]) - 1
         /\ last'.op \in {"DrawWrite1", "DrawWrite2"}
               => /\ room'.players = room.players
                  /\ room'.currentTurn = room.currentTurn
                  /\ room'.deck \in {room.deck, Tail(drawDeck[c])}
                  /\ room'.currentCard \in {room.currentCard, Stamped(drawDeck[c], NameOf(c))}]_vars

\* C2 witness: a draw from a deck of two cards was completed; the drawer's
\* card is the current card and the other card is the deck.
C2_Witness ==
  /\ last.op = "DrawWrite2"
  /\ room.currentCard.drawnBy = NameOf(last.c)
  /\ Len(room.deck) = 1
  /\ room.currentCard.card # room.deck[1].card

\* Client c is the player at currentTurn of its mirror.
OnTurn(c) ==
  /\ snap[c].currentTurn < Len(snap[c].players)
  /\ snap[c].players[snap[c].currentTurn + 1] = NameOf(c)

\* C3: an EndTurn from the player its snapshot shows on turn, the snapshot
\* not paused, is accepted; it sets currentCard to null, currentTurn to
\* (currentTurn + 1) mod players.length of that snapshot and
\* penaltyAnnouncement to empty, and leaves players, deck, referee,
\* thumbMaster, questionMaster, currentRule, mates, penalties, isPaused and
\* pauseReason of the document unchanged.
C3_EndTurnEffect ==
  [][LET c == last'.c
     IN  (last'.op = "EndTurn" /\ OnTurn(c) /\ ~snap[c].isPaused)
           => /\ last'.wrote
              /\ room'.currentCard = NoCard
              /\ room'.currentTurn = (snap[c].currentTurn + 1) % Len(snap[c].players)
              /\ last'.fresh => room'.currentTurn = (room.currentTurn + 1) % Len(room.players)
              /\ room'.penaltyAnnouncement = <<>>
              /\ room'.players = room.players
              /\ room'.deck = room.deck
              /\ room'.referee = room.referee
              /\ room'.thumbMaster = room.thumbMaster
              /\ room'.questionMaster = room.questionMaster
              /\ room'.currentRule = room.currentRule
              /\ room'.mates = room.mates
              /\ room'.penalties = room.penalties
              /\ room'.isPaused = room.isPaused
              /\ room'.pauseReason = room.pauseReason]_vars

\* C3 witness: the first player ended its turn in a room of three players
\* with a penalty on record; the turn moved to the second player and the
\* penalty stayed.
C3_Witness ==
  /\ FreshWrite(last, {"EndTurn"})
  /\ last.ct = 0
  /\ room.currentTurn = 1
  /\ Len(room.players) = 3
  /\ \E n \in Names : room.penalties[n] > 0
  /\ room.penaltyAnnouncement = <<>>
  /\ room.currentCard = NoCard

\* The player the document shows on turn, Null when the pointer is out of range.
TurnHolder(doc) ==
  IF doc.currentTurn >= 0 /\ doc.currentTurn < Len(doc.players)
  THEN doc.players[doc.currentTurn + 1] ELSE Null

\* The pointer a RemovePlayer or LeaveGame wrote obeys the rules of the claim:
\* i is the index of the removed name and ct the pointer before the write.
PointerRecomputed(before, after, i, ct) ==
  /\ (0 <= i /\ i < ct) => (after.currentTurn = ct - 1 /\ TurnHolder(after) = TurnHolder(before))
  /\ i > ct => (after.currentTurn = ct /\ TurnHolder(after) = TurnHolder(before))
  /\ (i = ct /\ Len(after.players) > 0) => after.currentTurn = ct % Len(after.players)
  /\ i >= 0 => Len(after.players) = Len(before.players) - 1

\* C4: RemovePlayer and LeaveGame of the player at index i with the pointer
\* at c write c - 1 if i < c, c if i > c (the same player stays on turn) and
\* c mod (new length) if i = c; removing a name that is not in players
\* changes nothing in the room document.
C4_PointerAndNoChange ==
  [][FreshWrite(last', {"RemovePlayer", "LeaveGame"})
       => /\ PointerRecomputed(room, room', last'.idx, last'.ct)
          /\ last'.idx = -1 => room' = room]_vars

\* The part of C4 the handlers keep: the pointer rules, and a name that is
\* not in players leaves players and the pointer as they are.
C4_PointerRules ==
  [][FreshWrite(last', {"RemovePlayer", "LeaveGame"})
       => /\ PointerRecomputed(room, room', last'.idx, last'.ct)
          /\ last'.idx = -1 => /\ room'.players = room.players
                                /\ room'.currentTurn = room.currentTurn]_vars

\* C5: a DrawCard invoked when the deck of the snapshot is empty never
\* changes the room document and always reports an error to the acting user.
C5_EmptyDeckError ==
  [][(last'.op = "DrawCard" /\ Len(snap[last'.c].deck) = 0)
       => (room' = room /\ last'.alert # "")]_vars

\* The part of C5 the handler keeps: a DrawCard on an empty deck starts no
\* draw and leaves the room document as it is.
C5_EmptyDeckNoWrite ==
  [][(last'.op = "DrawCard" /\ Len(snap[last'.c].deck) = 0)
       => (room' = room /\ pc'[last'.c] = pc[last'.c] /\ ~last'.wrote)]_vars

\* Client c is refused by the turn, role or pause test of drawCard and endTurn.
NotAllowed(c) == ~OnTurn(c) \/ session[c] = "observer" \/ snap[c].isPaused

\* C6: a DrawCard invoked by a client that is not the player at currentTurn
\* (an observer included), or by a client whose snapshot is paused, issues
\* no write, leaves the room document unchanged and reports a local error.
C6_RefusedDrawError ==
  [][(last'.op = "DrawCard" /\ NotAllowed(last'.c))
       => (room' = room /\ pc'[last'.c] = pc[last'.c] /\ last'.alert # "")]_vars

\* The part of C6 the handler keeps: such a DrawCard starts no draw and
\* leaves the room document as it is.
C6_RefusedDrawNoWrite ==
  [][(last'.op = "DrawCard" /\ NotAllowed(last'.c))
       => (room' = room /\ pc'[last'.c] = pc[last'.c] /\ ~last'.wrote)]_vars

\* C7: an EndTurn invoked by a client whose name is not players[currentTurn]
\* of its snapshot, or whose snapshot is paused, issues no write: currentTurn,
\* currentCard and the rest of the room document stay as they are.
C7_RefusedEndTurn ==
  [][(last'.op = "EndTurn" /\ (~OnTurn(last'.c) \/ snap[last'.c].isPaused))
       => /\ ~last'.wrote
          /\ room'.currentTurn = room.currentTurn
          /\ room'.currentCard = room.currentCard
          /\ room' = room]_vars

\* C7 witness: a player on turn pressed End Turn while its snapshot was
\* paused and was told so; the current card is still there.
C7_Witness ==
  /\ last.op = "EndTurn"
  /\ last.alert = "The game is currently paused."
  /\ room.isPaused
  /\ room.currentCard # NoCard
  /\ TurnHolder(room) = NameOf(last.c)

\* C8: a JoinRoom as referee on a room whose referee field holds another
\* name is rejected with an error, changes neither players nor referee (nor
\* anything else) in the room document and stores no local session; when
\* referee is unset or is the joining name the join goes on, and its write
\* sets referee to that name and adds it to players.
C8_RefereeJoin ==
  [][LET c == last'.c
         name == NameOf(c)
     IN  /\ (last'.op = "JoinRoom" /\ last'.arg = "referee" /\ room.exists
                /\ room.referee \notin {Null, name})
               => /\ last'.alert = "This room already has a referee."
                  /\ room' = room
                  /\ session'[c] = session[c]
                  /\ loc'[c] = "lobby"
                  /\ pc'[c] = "idle"
         /\ (last'.op = "JoinRoom" /\ last'.arg = "referee" /\ room.exists
                /\ room.referee \in {Null, name})
               => (last'.alert = "" /\ pc'[c] = "joinReferee")
         /\ last'.op = "JoinWrite"
               => /\ room'.referee = name
                  /\ room'.players = IF \E i \in 1..Len(room.players) : room.players[i] = name
                                      THEN room.players
                                      ELSE room.players \o <<name>>
                  /\ session'[c] = "referee"
                  /\ loc'[c] = "room"]_vars

\* C8 witness: a client asked to join as referee a room that has another
\* referee and was refused; it is still in the lobby without a session.
C8_Witness ==
  /\ last.op = "JoinRoom"
  /\ last.arg = "referee"
  /\ last.alert = "This room already has a referee."
  /\ room.referee \notin {Null, NameOf(last.c)}
  /\ NameOf(last.c) \notin {room.players[i] : i \in 1..Len(room.players)}
  /\ session[last.c] = Null
  /\ loc[last.c] = "lobby"

\* C9: in every reachable room state the referee field is null or a name
\* present in players (it is cleared when the referee leaves, is removed by
\* RemovePlayer, or the room is quit).
C9_RefereeInPlayers ==
  room.exists =>
    (room.referee = Null \/ \E i \in 1..Len(room.players) : room.players[i] = room.referee)

\* The part of C9 the handlers keep: a LeaveGame of the referee, computed from
\* a snapshot equal to the document, clears the referee field.
C9_LeaveClearsReferee ==
  [][(FreshWrite(last', {"LeaveGame"}) /\ room.referee = NameOf(last'.c))
       => room'.referee = Null]_vars

\* What confirmMatePair does with the selection sel of client c, the names
\* of sel taken from the set allowed.
PairConfirmed(c, sel, allowed) ==
  /\ mateSelectionMode[c] = "pair"
  /\ session[c] = "referee"
  /\ last'.wrote <=> Len(sel) = 2
  /\ ~last'.wrote => (room' = room /\ last'.alert # "")
  /\ last'.wrote
        => /\ sel[1] # sel[2]
           /\ sel[1] \in allowed
           /\ sel[2] \in allowed
           /\ room'.mates[sel[1]] = sel[2]
           /\ room'.mates[sel[2]] = sel[1]
           /\ \A n \in Names \ {sel[1], sel[2]} : room'.mates[n] = snap[c].mates[n]
           /\ room'.currentCard = NoCard
           /\ room'.currentTurn = (snap[c].currentTurn + 1) % Len(snap[c].players)
           /\ last'.fresh
                 => /\ \A n \in Names \ {sel[1], sel[2]} : room'.mates[n] = room.mates[n]
                    /\ room'.currentTurn = (room.currentTurn + 1) % Len(room.players)

\* C10: ConfirmMatePair is offered in pair mode, which only a client of role
\* referee enters; it writes nothing to mates unless exactly two distinct
\* players other than the acting referee are selected, each picked from the
\* players of the mirror (a picked player stays selected if it leaves the
\* room before the confirmation); with two selections p1 and p2 it records
\* mates[p1] = p2 and mates[p2] = p1, keeps every other entry of mates,
\* clears currentCard and sets currentTurn to (currentTurn + 1) mod
\* players.length.
C10_MatePair ==
  [][LET c == last'.c
     IN  /\ last'.op = "confirmMatePair"
               => PairConfirmed(c, selectedMates[c], Names \ {NameOf(c)})
         /\ last'.op = "handleMatePairSelection"
               => /\ room' = room
                  /\ \A i \in 1..Len(selectedMates'[c]) :
                        \/ \E j \in 1..Len(selectedMates[c]) :
                              selectedMates[c][j] = selectedMates'[c][i]
                        \/ /\ selectedMates'[c][i] # NameOf(c)
                           /\ \E k \in 1..Len(snap[c].players) :
                                 snap[c].players[k] = selectedMates'[c][i]]_vars

\* C10 witness: the referee drew the Mate card in a room of three, selected
\* the two other players and confirmed; both links are recorded, the card
\* is cleared and the turn went to the second player.
C10_Witness ==
  /\ FreshWrite(last, {"confirmMatePair"})
  /\ Len(room.players) = 3
  /\ \E p1, p2 \in Names \ {NameOf(last.c)} :
        /\ p1 # p2
        /\ room.mates[p1] = p2
        /\ room.mates[p2] = p1
        /\ \E i, j \in 1..3 : room.players[i] = p1 /\ room.players[j] = p2
  /\ room.mates[NameOf(last.c)] = Null
  /\ room.currentCard = NoCard
  /\ room.currentTurn = 1

\* C11: ChooseMate(actor, target) in single mode records mates[actor] =
\* target, target a player of the snapshot other than actor; it leaves every
\* other entry of mates as it is (no link target -> actor), clears
\* currentCard and sets currentTurn to (currentTurn + 1) mod players.length.
C11_ChooseMate ==
  [][LET c == last'.c
         actor == NameOf(c)
         target == last'.arg
     IN  last'.op = "chooseMate"
           => /\ mateSelectionMode[c] = "single"
              /\ last'.wrote
              /\ target # actor
              /\ \E i \in 1..Len(snap[c].players) : snap[c].players[i] = target
              /\ room'.mates[actor] = target
              /\ \A n \in Names \ {actor} : room'.mates[n] = snap[c].mates[n]
              /\ room'.currentCard = NoCard
              /\ room'.currentTurn = (snap[c].currentTurn + 1) % Len(snap[c].players)
              /\ last'.fresh
                    => /\ \A n \in Names \ {actor} : room'.mates[n] = room.mates[n]
                       /\ room'.currentTurn = (room.currentTurn + 1) % Len(room.players)]_vars

\* C11 witness: a player drew the Mate card and chose a mate; the link is
\* recorded one way only, the card is cleared and the turn moved on.
C11_Witness ==
  /\ FreshWrite(last, {"chooseMate"})
  /\ room.mates[NameOf(last.c)] = last.arg
  /\ room.mates[last.arg] = Null
  /\ room.currentCard = NoCard
  /\ room.currentTurn = 1
  /\ Len(room.players) = 3

\* Client c drew the Mate card the document shows and has not completed its
\* selection.
MatePending(c) ==
  /\ loc[c] = "room"
  /\ selectingMate[c]
  /\ room.currentCard.action = "Mate"
  /\ room.currentCard.drawnBy = NameOf(c)
  /\ TurnHolder(room) = NameOf(c)

\* C12: after a player drew a Mate card the room is in the mate-selection
\* sub-state: until that player completes ChooseMate or ConfirmMatePair no
\* draw step, selection step or EndTurn of that player changes currentTurn
\* or currentCard; in particular its EndTurn does not advance the turn.
C12_MateSuspendsTurn ==
  [][\A c \in Clients :
       (/\ MatePending(c)
        /\ last'.c = c
        /\ last'.op \in {"EndTurn", "DrawCard", "DrawWrite1", "DrawWrite2", "DrawFail",
                          "handleMatePairSelection"})
         => /\ room'.currentTurn = room.currentTurn
            /\ room'.currentCard = room.currentCard]_vars

\* The part of C12 the handlers keep: the draw of a Mate card opens the
\* selection (pair mode for a referee, single mode otherwise) and leaves
\* currentTurn as it is.
C12_MateOpensSelection ==
  [][\A c \in Clients :
       (last'.c = c /\ last'.op = "DrawWrite1" /\ last'.arg = "Mate" /\ loc[c] = "room")
         => /\ selectingMate'[c]
            /\ mateSelectionMode'[c] = IF session[c] = "referee" THEN "pair" ELSE "single"
            /\ room'.currentCard.action = "Mate"
            /\ room'.currentTurn = room.currentTurn]_vars

\* C13: a write of drawCard sets thumbMaster to the drawer exactly when the
\* card's action is "Thumb" and questionMaster exactly when it is "Question
\* Master"; for every other card, New Rule and Mate included, both fields are
\* left as they were.  The New Rule branch writes thumbMaster as well.
C13_MastersOnlyOnTheirCards ==
  [][last'.op \in {"DrawWrite1", "DrawWrite2"}
       => /\ room'.thumbMaster =
               IF last'.arg = "Thumb" THEN NameOf(last'.c) ELSE room.thumbMaster
          /\ room'.questionMaster =
               IF last'.arg = "Question Master" THEN NameOf(last'.c)
               ELSE room.questionMaster]_vars

\* The part of C13 the code keeps: the Mate draw leaves both masters alone,
\* no draw touches questionMaster unless the card is Question Master, and
\* the final write of every draw leaves both alone.
C13_MateKeepsMasters ==
  [][last'.op \in {"DrawWrite1", "DrawWrite2"}
       => /\ (last'.arg = "Mate" \/ last'.op = "DrawWrite2")
               => room'.thumbMaster = room.thumbMaster
          /\ last'.arg # "Question Master"
               => room'.questionMaster = room.questionMaster
          /\ (last'.arg = "New Rule" /\ last'.op = "DrawWrite1")
               => room'.thumbMaster = NameOf(last'.c)]_vars

\* C14: the New Rule draw writes the shrunk deck and the card before any
\* rule text exists and leaves currentRule alone; the dialog then overwrites
\* currentRule exactly when the text is non-empty and changes nothing else;
\* no other operation than the dialog and resetRound changes currentRule.
C14_NewRule ==
  [][LET c == last'.c
     IN  /\ (last'.op \in {"DrawWrite1", "DrawWrite2"} /\ last'.arg = "New Rule")
               => /\ room'.deck = SubSeq(drawDeck[c], 2, Len(drawDeck[c]))
                  /\ room'.currentCard = [drawDeck[c][1] EXCEPT !.drawnBy = NameOf(c)]
                  /\ room'.currentRule = room.currentRule
         /\ last'.op = "RuleConfirm"
               => /\ room'.currentRule =
                       IF last'.arg # "" THEN last'.arg ELSE room.currentRule
                  /\ room'.deck = room.deck
                  /\ room'.currentCard = room.currentCard
                  /\ room'.currentTurn = room.currentTurn
         /\ last'.op \notin {"RuleConfirm", "resetRound", "CreateRoom"}
               => room'.currentRule = room.currentRule]_vars

\* The dialog of a New Rule draw was cancelled while a rule was in force: the
\* card is drawn, the deck has shrunk and the earlier rule is still there.
C14_Witness ==
  /\ last.op = "RuleConfirm" /\ last.arg = ""
  /\ room.currentRule = "rule"
  /\ room.currentCard.action = "New Rule"
  /\ room.currentCard.drawnBy = NameOf(last.c)
  /\ Len(room.deck) = Len(generateDeck) - 1

\* C15: every markRuleViolation raises penalties[target] of the document by
\* exactly 1 and leaves the other counts alone, also when the referee's mirror
\* has not yet received the snapshot of an earlier mark.
C15_ViolationCounts ==
  [][last'.op = "markRuleViolation"
       => /\ room'.penalties[last'.arg] = room.penalties[last'.arg] + 1
          /\ \A n \in Names \ {last'.arg} : room'.penalties[n] = room.penalties[n]]_vars

\* The part of C15 the code keeps: the other counts are never touched, the
\* stored count is the mirror's count plus 1, and the count rises by exactly 1
\* whenever the referee's mirror is up to date.
C15_ViolationCountsFresh ==
  [][last'.op = "markRuleViolation"
       => /\ \A n \in Names \ {last'.arg} : room'.penalties[n] = room.penalties[n]
          /\ room'.penalties[last'.arg] = snap[last'.c].penalties[last'.arg] + 1
          /\ last'.fresh
               => room'.penalties[last'.arg] = room.penalties[last'.arg] + 1]_vars

\* C16: resetRound replaces the deck by a permutation of a freshly generated
\* deck (every card of it exactly once, none drawn), clears currentCard,
\* thumbMaster, questionMaster, currentRule, mates, penalties and the pause,
\* sets currentTurn to 0 and keeps players and referee.
C16_ResetRound ==
  [][last'.op = "resetRound"
       => /\ Len(room'.deck) = Len(generateDeck)
          /\ \A i \in 1..Len(generateDeck) :
               Cardinality({j \in 1..Len(room'.deck) : room'.deck[j] = generateDeck[i]}) = 1
          /\ \A j \in 1..Len(room'.deck) : room'.deck[j].drawnBy = Null
          /\ room'.currentCard = NoCard
          /\ room'.thumbMaster = Null /\ room'.questionMaster = Null
          /\ room'.currentRule = ""
          /\ \A n \in Names : room'.mates[n] = Null /\ room'.penalties[n] = 0
          /\ ~room'.isPaused /\ room'.pauseReason = ""
          /\ room'.penaltyAnnouncement = NoAnnouncement
          /\ room'.currentTurn = 0
          /\ room'.players = room.players
          /\ room'.referee = room.referee]_vars

\* A round was reset after a Mate card had been played in it: the drawer's
\* mate panel was opened earlier, the three players and the referee remain.
C16_Witness ==
  /\ last.op = "resetRound"
  /\ \E c \in Clients : selectingMate[c] \/ ruleModal[c]
  /\ budget = 0
  /\ Len(room.deck) = Len(generateDeck) /\ room.currentCard = NoCard
  /\ Len(room.players) = 3 /\ room.referee # Null /\ room.currentTurn = 0

\* The fields of a new room other than its deck, for creator c in role r.
NewRoomFields(doc, c, r) ==
  /\ doc.exists /\ doc.players = <<NameOf(c)>> /\ doc.currentTurn = 0
  /\ doc.currentCard = NoCard
  /\ doc.thumbMaster = Null /\ doc.questionMaster = Null
  /\ \A n \in Names : doc.mates[n] = Null /\ doc.penalties[n] = 0
  /\ ~doc.isPaused
  /\ doc.referee = (IF r = "referee" THEN NameOf(c) ELSE Null)

\* deck holds every card of full exactly once and nothing else.
PermutationOf(deck, full) ==
  /\ Len(deck) = Len(full)
  /\ \A i \in 1..Len(full) :
       Cardinality({j \in 1..Len(deck) : deck[j] = full[i]}) = 1

\* C17: a newly created room holds a permutation of the full deck (every
\* rank in every suit, labelled with the rank's action of the game), players
\* is the creator alone, currentTurn is 0, currentCard and the masters are
\* null, mates and penalties are empty, the game is not paused, and referee
\* is the creator exactly when the creator's role is referee.
C17_NewRoom ==
  [][(last'.op = "CreateRoom" /\ last'.wrote)
       => /\ PermutationOf(room'.deck, generateDeck)
          /\ NewRoomFields(room', last'.c, last'.arg)]_vars

\* The part of C17 the lobby keeps: every field but the deck is as claimed,
\* and the deck is a permutation of what the lobby's own generateDeck builds.
C17_NewRoomOwnDeck ==
  [][(last'.op = "CreateRoom" /\ last'.wrote)
       => /\ PermutationOf(room'.deck, lobbyGenerateDeck)
          /\ NewRoomFields(room', last'.c, last'.arg)]_vars

\* A card as generateDeck made it: the drawnBy stamp taken off.
Unstamped(card) == [card EXCEPT !.drawnBy = Null]

\* C18: in every reachable state of a started room, whatever draws,
\* end-turns, mate choices and resets the clients have issued, the deck holds
\* no card twice, every card of the deck and the current card (its drawnBy
\* stamp ignored) is a card of the generated deck, and the current card is not
\* also in the deck.
C18_DeckIntegrity ==
  room.exists =>
    /\ \A i, j \in 1..Len(room.deck) : room.deck[i] = room.deck[j] => i = j
    /\ \A i \in 1..Len(room.deck) : room.deck[i] \in Range(generateDeck)
    /\ room.currentCard # NoCard
         => /\ Unstamped(room.currentCard) \in Range(generateDeck)
            /\ \A i \in 1..Len(room.deck) :
                 room.deck[i] # Unstamped(room.currentCard)

\* The final write of a New Rule draw landed after a reset that was issued
\* between the draw's two writes (the reset cleared the thumb master the
\* first write had set): the current card is the King again and the deck is
\* the rest of the shuffle the draw was computed from.
C18_Witness ==
  /\ last.op = "DrawWrite2" /\ last.arg = "New Rule"
  /\ room.thumbMaster = Null
  /\ room.currentCard.action = "New Rule"
  /\ room.currentCard.drawnBy = NameOf(last.c)
  /\ Len(room.deck) = Len(generateDeck) - 1

\* The game state of a room document as C19 lists it.
GameState(doc) ==
  <<doc.deck, doc.currentCard, doc.currentTurn, doc.players, doc.mates,
    doc.penalties, doc.thumbMaster, doc.questionMaster, doc.currentRule,
    doc.isPaused, doc.pauseReason>>

\* A handler step taken on the room page by a client whose role is observer.
ObserverStep(c) ==
  /\ last'.c = c /\ last'.op \notin {"Deliver", "ClearAnnouncement"}
  /\ loc[c] = "room" /\ session[c] = "observer"

\* C19: joining as observer adds no name to players, and no handler an
\* observer can start on the room page changes the game state, in every room
\* state, the one with an empty deck included.
C19_ObserverCannotAct ==
  [][/\ (last'.op = "JoinRoom" /\ last'.arg = "observer")
          => room'.players = room.players
     /\ \A c \in Clients :
          ObserverStep(c) => GameState(room') = GameState(room)]_vars

\* The part of C19 the code keeps: an observer's join writes nothing, and an
\* observer's step changes the document only through Reset Round or Quit
\* Room, which the page shows to it once its mirror's deck is empty.
C19_ObserverOnlyRoundControls ==
  [][/\ (last'.op = "JoinRoom" /\ last'.arg = "observer") => room' = room
     /\ \A c \in Clients :
          (ObserverStep(c) /\ room' # room)
            => last'.op \in {"resetRound", "quitRoom"} /\ Len(snap[c].deck) = 0]_vars

\* C20: in every reachable state of the room document, whatever joins, draws,
\* end-turns, mate choices, removals, leaves, resets and quits the clients
\* have issued from their last-received snapshots, a non-empty players list
\* has 0 <= currentTurn < players.length.
C20_TurnDesignatesPlayer ==
  (room.exists /\ Len(room.players) > 0)
    => 0 <= room.currentTurn /\ room.currentTurn < Len(room.players)

\* The part of C20 the code keeps: as long as every snapshot has reached
\* every mirror before the next handler ran, the pointer designates a player.
C20_TurnDesignatesPlayerNoLag ==
  (stale = 0 /\ room.exists /\ Len(room.players) > 0)
    => 0 <= room.currentTurn /\ room.currentTurn < Len(room.players)

\* Client c is on the room page with referee rights (role === "referee").
HoldsReferee(c) == loc[c] = "room" /\ session[c] = "referee"

\* C21: at no time do two clients with different names both hold referee
\* rights for the room, also when two referee joins are issued concurrently.
C21_SingleReferee ==
  \A c, d \in Clients :
    (HoldsReferee(c) /\ HoldsReferee(d)) => NameOf(c) = NameOf(d)

\* The part of C21 the lobby keeps: a referee join goes on to its write only
\* when the document it read has no referee or names the joiner, and is
\* refused with the error text otherwise.
C21_RefereeJoinTest ==
  [][(last'.op = "JoinRoom" /\ last'.arg = "referee" /\ room.exists)
       => IF room.referee = Null \/ room.referee = NameOf(last'.c)
          THEN pc'[last'.c] = "joinReferee" /\ last'.alert = ""
          ELSE /\ last'.alert = "This room already has a referee."
               /\ room' = room /\ session' = session /\ pc' = pc]_vars

\* C22: the turn check of drawCard is made against the client's own mirror
\* and nothing else: a draw is started exactly by a client its mirror shows
\* on turn, so a client the document does not show on turn can start one
\* only from a mirror that differs from the document; and the final write
\* of a draw stores the deck and the card computed from that mirror over
\* whatever another client's draw has written.  C22_Witness is the double
\* draw this allows.
C22_DrawCheckedOnMirror ==
  [][LET c == last'.c
     IN  /\ (last'.op = "DrawCard" /\ pc[c] = "idle" /\ pc'[c] # "idle")
               => /\ snap[c].currentTurn < Len(snap[c].players)
                  /\ snap[c].players[snap[c].currentTurn + 1] = NameOf(c)
                  /\ drawDeck'[c] = snap[c].deck
                  /\ (TurnHolder(room) # NameOf(c) => ~last'.fresh)
         /\ last'.op = "DrawWrite2"
               => /\ room'.deck = SubSeq(drawDeck[c], 2, Len(drawDeck[c]))
                  /\ room'.currentCard = [drawDeck[c][1] EXCEPT !.drawnBy = NameOf(c)]
                  /\ room'.currentTurn = room.currentTurn]_vars

\* A double draw: the document shows client c on turn, c drew the King and
\* its New Rule dialog is open; client d, whose mirror is behind the document
\* and still shows d on turn, drew the same King from that mirror, and d's
\* final write has replaced the card c had stored.
C22_Witness ==
  \E c, d \in Clients :
    /\ c # d
    /\ loc[c] = "room" /\ loc[d] = "room"
    /\ ruleModal[c] /\ TurnHolder(room) = NameOf(c)
    /\ snap[d] # room /\ TurnHolder(snap[d]) = NameOf(d)
    /\ last.op = "DrawWrite2" /\ last.c = d /\ last.arg = "New Rule"
    /\ room.currentCard.action = "New Rule"
    /\ room.currentCard.drawnBy = NameOf(d)

\* Some client has the room page mounted, that is, is subscribed to the room.
SomeSubscribed == \E c \in Clients : loc[c] = "room"

\* C23: a non-blank penaltyAnnouncement is eventually reset to the empty
\* text, by a timer's write or by an EndTurn, provided some client stays
\* subscribed to the room; a clearing write comes only from a mounted client
\* whose mirror still shows the announcement its timer was started for, the
\* timer being cancelled on unmount and restarted when the text changes.
C23_AnnouncementCleared ==
  /\ (room.penaltyAnnouncement # NoAnnouncement)
       ~> (room.penaltyAnnouncement = NoAnnouncement \/ ~SomeSubscribed)
  /\ [][/\ last'.op = "ClearAnnouncement"
            => /\ loc[last'.c] = "room"
               /\ snap[last'.c].penaltyAnnouncement # NoAnnouncement
               /\ room'.penaltyAnnouncement = NoAnnouncement
               /\ \A n \in Names : room'.penalties[n] = room.penalties[n]
        /\ \A c \in Clients :
             /\ loc'[c] # "room" => clearTimer'[c] = "none"
             /\ (loc[c] = "room" /\ loc'[c] = "room"
                   /\ snap'[c].penaltyAnnouncement # snap[c].penaltyAnnouncement)
                  => clearTimer'[c] =
                       IF snap'[c].penaltyAnnouncement # NoAnnouncement
                       THEN "armed" ELSE "none"]_vars

\* A timer's write cleared the announcement of a violation while the
\* penalty it announced stays counted.
C23_Witness ==
  /\ last.op = "ClearAnnouncement" /\ last.fresh
  /\ room.penaltyAnnouncement = NoAnnouncement
  /\ \E n \in Names : room.penalties[n] = 1
  /\ clearTimer[last.c] \in {"none", "fired"}

\* C24: after a drawCard whose updateDoc fails the room document is as the
\* failed write found it and the client is not left in its drawing state, so
\* that the same player can invoke drawCard again.
C24_FailedDrawRecoverable ==
  [][last'.op = "DrawFail"
       => room' = room /\ ~isDrawing'[last'.c]]_vars

\* The part of C24 the code keeps: the failed write changes nothing in the
\* document.  The handler has no catch and no finally, so isDrawing stays as
\* it was set and every later drawCard of the client returns silently.
C24_FailedDrawWritesNothing ==
  [][/\ last'.op = "DrawFail" => room' = room /\ isDrawing' = isDrawing
     /\ (last'.op = "DrawCard" /\ isDrawing[last'.c])
          => room' = room /\ pc' = pc /\ last'.alert = ""]_vars

\* C25, as stated: a turn is Idle -> CardDrawn -> Idle with at most one card
\* drawn in it, so the card on the table is cleared only by the step that
\* advances currentTurn (a room with one player has nobody to advance to);
\* were it cleared with the pointer left in place, the same player would be
\* idle in the same turn and draw a second card.
C25_OneCardPerTurn ==
  [][(room.currentCard # NoCard /\ room'.currentCard = NoCard
        /\ Len(room.players) >= 2 /\ room'.players = room.players)
       => room'.currentTurn # room.currentTurn]_vars

\* C25, amended: drawCard is started only from a mirror with no current card
\* and with no draw of the client pending, endTurn writes only from a mirror
\* with a current card; the current card is cleared by nothing but endTurn,
\* a mate choice or resetRound; and an endTurn or mate choice computed from
\* an up-to-date mirror of a room with two or more players clears the card
\* and moves currentTurn to another player.
C25_TurnCycle ==
  [][LET c == last'.c
     IN  /\ (last'.op = "DrawCard" /\ pc[c] = "idle" /\ pc'[c] # "idle")
               => /\ snap[c].currentCard = NoCard /\ ~isDrawing[c]
                  /\ last'.fresh => room.currentCard = NoCard
         /\ (last'.op = "EndTurn" /\ last'.wrote)
               => snap[c].currentCard # NoCard
         /\ (room.currentCard # NoCard /\ room'.currentCard = NoCard)
               => last'.op \in {"EndTurn", "chooseMate", "confirmMatePair", "resetRound"}
         /\ (FreshWrite(last', {"EndTurn", "chooseMate", "confirmMatePair"})
               /\ Len(room.players) >= 2)
               => /\ room'.currentCard = NoCard
                  /\ room'.currentTurn # room.currentTurn
                  /\ room'.deck = room.deck]_vars

\* The first player has drawn a card, the draw has completed, and the
\* player has ended the turn on an up-to-date mirror: the table is clear and
\* the second player is on.
C25_Witness ==
  /\ FreshWrite(last, {"EndTurn"}) /\ last.c = 1
  /\ pc[1] = "idle" /\ ~isDrawing[1]
  /\ room.currentCard = NoCard /\ room.currentTurn = 1
  /\ Len(room.players) = 3
  /\ Len(room.deck) = Len(generateDeck) - 1

\* A round was reset in the middle of the first player's turn: the card that
\* player had drawn is gone, currentTurn is 0 as before, and the same player
\* has drawn again.
C25_ResetWithinTurn ==
  /\ last.op = "DrawWrite2" /\ last.c = 1 /\ budget = GameOps - 3
  /\ room.currentTurn = 0 /\ Len(room.players) = 3
  /\ selectingMate[1] /\ room.currentCard.action = "New Rule"
  /\ room.currentCard.drawnBy = NameOf(1)

\* C26: in every reachable room state a non-null currentCard was drawn by
\* players[currentTurn], also after the player who drew it has been removed
\* or has left.
C26_CardBelongsToTurnHolder ==
  (room.exists /\ room.currentCard # NoCard)
    => room.currentCard.drawnBy = TurnHolder(room)

\* The part of C26 the code keeps: a draw stamps the card with the name of
\* the drawing client, whom its mirror showed on turn when the draw started.
C26_CardStampedByDrawer ==
  [][/\ last'.op \in {"DrawWrite1", "DrawWrite2"}
          => (room'.currentCard # room.currentCard
                => room'.currentCard.drawnBy = NameOf(last'.c))
     /\ (last'.op = "DrawCard" /\ pc[last'.c] = "idle" /\ pc'[last'.c] # "idle")
          => TurnHolder(snap[last'.c]) = NameOf(last'.c)]_vars

\* C27: chooseMate and confirmMatePair write only while the room's current
\* card is a Mate card drawn by the choosing client: the selectingMate flag
\* does not outlive the turn or the round, so a mate choice never advances
\* currentTurn where that client has no Mate card on the table.
C27_MateChoiceNeedsMateCard ==
  [][(last'.op \in {"chooseMate", "confirmMatePair"} /\ last'.wrote)
       => /\ room.currentCard.action = "Mate"
          /\ room.currentCard.drawnBy = NameOf(last'.c)]_vars

\* The flag is set by the draw of a Mate card and cleared by nothing but a
\* mate choice of the client or the unmounting of its page.
C27_FlagClearedOnlyByChoice ==
  [][\A c \in Clients :
       (selectingMate[c] /\ ~selectingMate'[c])
         => \/ (last'.c = c /\ last'.op \in {"chooseMate", "confirmMatePair"})
            \/ loc'[c] # "room" \/ loc[c] # "room"]_vars

\* currentTurn, currentCard and deck of a room document.
TurnState(doc) == <<doc.currentTurn, doc.currentCard, doc.deck>>

\* C28: while the mirror of a client shows the game paused, no drawCard,
\* endTurn, chooseMate or confirmMatePair of that client changes currentTurn,
\* currentCard or deck, also when the pause began during a mate selection.
C28_PausedNoTurnAction ==
  [][(last'.op \in {"DrawCard", "EndTurn", "chooseMate", "confirmMatePair"}
        /\ snap[last'.c].isPaused)
       => TurnState(room') = TurnState(room)]_vars

\* The part of C28 the code keeps: drawCard and endTurn invoked on a paused
\* mirror write nothing and start nothing.
C28_PausedDrawAndEndTurnRefused ==
  [][(last'.op \in {"DrawCard", "EndTurn"} /\ snap[last'.c].isPaused)
       => room' = room /\ pc' = pc /\ ~last'.wrote]_vars

\* C29: a name that is in players stays in players until that player leaves,
\* is removed by the referee, or the room is quit, also when a RemovePlayer or
\* LeaveGame of another client, computed from a mirror older than the join,
\* is written after the join; and players never holds a name twice.
C29_MembershipKept ==
  [][/\ \A n \in Range(room.players) :
          n \notin Range(room'.players)
            => \/ (last'.op = "LeaveGame" /\ NameOf(last'.c) = n)
               \/ (last'.op = "RemovePlayer" /\ last'.arg = n)
               \/ last'.op = "quitRoom"
     /\ \A i, j \in 1..Len(room'.players) :
          room'.players[i] = room'.players[j] => i = j]_vars

\* The part of C29 the code keeps: players never holds a name twice, a join
\* appends the name with arrayUnion whatever the joiner's view, and a
\* RemovePlayer or LeaveGame computed from an up-to-date mirror takes out no
\* other name than its own target.
C29_MembershipKeptFresh ==
  [][/\ \A i, j \in 1..Len(room'.players) :
          room'.players[i] = room'.players[j] => i = j
     /\ (last'.op \in {"JoinRoom", "JoinWrite"} /\ last'.wrote)
          => /\ NameOf(last'.c) \in Range(room'.players)
             /\ Range(room.players) \subseteq Range(room'.players)
     /\ FreshWrite(last', {"LeaveGame", "RemovePlayer"})
          => Range(room.players) \ Range(room'.players) \subseteq {last'.arg}]_vars

\* C30: creating a room never alters an existing room: the new document goes
\* under a code no existing room uses, so players, deck and turn state of a
\* room that existed before the creation are as they were.
C30_CreateKeepsExistingRoom ==
  [][(last'.op = "CreateRoomAgain" /\ room.exists)
       => /\ room'.players = room.players
          /\ room'.deck = room.deck
          /\ room'.currentTurn = room.currentTurn
          /\ room'.currentCard = room.currentCard]_vars

\* The part of C30 the code keeps: a creation whose generated code differs
\* from the code of the existing room leaves that room's document alone.
C30_OtherCodeKeepsRoom ==
  [][(last'.op = "CreateRoomAgain" /\ last'.arg # 1) => room' = room]_vars

====
